---- MODULE Spec2Model ----
(***************************************************************************)
(* A model of jsonschema_mdit.generator.default.DefaultGenerator: one      *)
(* generator instance, its four call-scoped fields, and the steps of       *)
(* generate_schema and of the helpers it calls.                            *)
(*                                                                         *)
(* JSON values are tagged records [t, v]; a schema is a function from      *)
(* keyword strings to tagged values.  A Python dict (badge kwargs, style   *)
(* settings) is a function from strings; a | b is  b @@ a.               *)
(* Optional[str] is a sequence of zero (None) or one string.               *)
(* The outcome of a Python call is a record [kind, exc, val] with kind     *)
(* "return" or "raise".                                                    *)
(***************************************************************************)
EXTENDS Integers, Sequences, FiniteSets, TLC

VARIABLES
    registry,              \* self._registry: "None" or a mapping id -> contents
    snake_ref,             \* what camel_to_snake gives for the keyword "$ref"
    self_schema,           \* self._schema
    self_schema_jsonpath,  \* self._schema_jsonpath
    self_schema_tag_prefix,\* self._schema_tag_prefix
    self_instance_jsonpath,\* self._instance_jsonpath
    pc,                    \* per call: the line generate_schema is at
    args,                  \* per call: the four arguments of generate_schema
    badge_items,           \* per call: the local badge_items of _generate_badges
    result,                \* per call: how generate_schema ended
    earlier,               \* per call slot: an earlier call was completed on the instance
    tabs_result,           \* outcome of the last direct call of a tab method
    kwargs                 \* the last direct call of _make_badge_kwargs

vars == <<registry, snake_ref, self_schema, self_schema_jsonpath,
          self_schema_tag_prefix, self_instance_jsonpath, pc, args,
          badge_items, result, earlier, tabs_result, kwargs>>

-----------------------------------------------------------------------------
(* Bounds of the model *)

\* longest list value (required, enum, examples) a pool schema carries
MaxLen == 2
\* largest number a scalar keyword carries
MaxInt == 1

-----------------------------------------------------------------------------
(* JSON values and Python helpers *)

VBool(b) == [t |-> "bool", v |-> b]
VInt(n) == [t |-> "int", v |-> n]
VStr(s) == [t |-> "str", v |-> s]
VList(q) == [t |-> "list", v |-> q]      \* a list of strings
VIList(q) == [t |-> "ilist", v |-> q]    \* a list of numbers
VDict(f) == [t |-> "dict", v |-> f]
VNone == [t |-> "none", v |-> "None"]

EmptyDict == [k \in {} |-> 0]

\* Python truthiness of a value
Truthy(x) ==
    CASE x.t = "bool" -> x.v
      [] x.t = "int" -> x.v # 0
      [] x.t = "str" -> x.v # ""
      [] x.t \in {"list", "ilist"} -> Len(x.v) > 0
      [] x.t = "dict" -> DOMAIN x.v # {}
      [] OTHER -> FALSE

\* str(value) for the scalar types
PyStr(x) ==
    CASE x.t = "bool" -> IF x.v THEN "True" ELSE "False"
      [] x.t = "int" -> ToString(x.v)
      [] x.t = "str" -> x.v
      [] OTHER -> "None"

\* sep.join(seq) for a sequence of strings
RECURSIVE Join(_, _)
Join(seq, sep) ==
    IF Len(seq) = 0 THEN ""
    ELSE IF Len(seq) = 1 THEN seq[1]
    ELSE seq[1] \o sep \o Join(Tail(seq), sep)

\* dict.get(key, default) and dict.get(key) (None when absent)
Get(d, k, default) == IF k \in DOMAIN d THEN d[k] ELSE default
GetOrNone(d, k) == Get(d, k, VNone)

Return(val) == [kind |-> "return", exc |-> "", val |-> val]
Raise(exc) == [kind |-> "raise", exc |-> exc, val |-> EmptyDict]
\* a call that has not ended
Pending == [kind |-> "pending", exc |-> "", val |-> EmptyDict]

-----------------------------------------------------------------------------
(* Keywords.  Each row: keyword, camel_to_snake(keyword),                  *)
(* camel_to_title(keyword).                                                *)

KeyTable ==
    << <<"deprecated", "deprecated", "Deprecated">>,
       <<"readOnly", "read_only", "Read Only">>,
       <<"writeOnly", "write_only", "Write Only">>,
       <<"type", "type", "Type">>,
       <<"format", "format", "Format">>,
       <<"contentMediaType", "content_media_type", "Content Media Type">>,
       <<"contentEncoding", "content_encoding", "Content Encoding">>,
       <<"minLength", "min_length", "Min Length">>,
       <<"maxLength", "max_length", "Max Length">>,
       <<"minimum", "minimum", "Minimum">>,
       <<"exclusiveMinimum", "exclusive_minimum", "Exclusive Minimum">>,
       <<"maximum", "maximum", "Maximum">>,
       <<"exclusiveMaximum", "exclusive_maximum", "Exclusive Maximum">>,
       <<"multipleOf", "multiple_of", "Multiple Of">>,
       <<"minItems", "min_items", "Min Items">>,
       <<"maxItems", "max_items", "Max Items">>,
       <<"minContains", "min_contains", "Min Contains">>,
       <<"maxContains", "max_contains", "Max Contains">>,
       <<"uniqueItems", "unique_items", "Unique Items">>,
       <<"unevaluatedItems", "unevaluated_items", "Unevaluated Items">>,
       <<"minProperties", "min_properties", "Min Properties">>,
       <<"maxProperties", "max_properties", "Max Properties">>,
       <<"unevaluatedProperties", "unevaluated_properties", "Unevaluated Properties">>,
       <<"default", "default", "Default">>,
       <<"required", "required", "Required">>,
       <<"dependentRequired", "dependent_required", "Dependent Required">>,
       <<"const", "const", "Const">>,
       <<"pattern", "pattern", "Pattern">>,
       <<"enum", "enum", "Enum">>,
       <<"contentSchema", "content_schema", "Content Schema">>,
       <<"prefixItems", "prefix_items", "Prefix Items">>,
       <<"items", "items", "Items">>,
       <<"contains", "contains", "Contains">>,
       <<"properties", "properties", "Properties">>,
       <<"patternProperties", "pattern_properties", "Pattern Properties">>,
       <<"additionalProperties", "additional_properties", "Additional Properties">>,
       <<"propertyNames", "property_names", "Property Names">>,
       <<"dependentSchemas", "dependent_schemas", "Dependent Schemas">>,
       <<"allOf", "all_of", "All Of">>,
       <<"oneOf", "one_of", "One Of">>,
       <<"anyOf", "any_of", "Any Of">>,
       <<"not", "not", "Not">>,
       <<"if", "if", "If">>,
       <<"examples", "examples", "Examples">>,
       <<"JSONPath", "jsonpath", "JSONPath">>,
       <<"$id", "$id", "$Id">> >>

Keywords == { KeyTable[i][1] : i \in 1..Len(KeyTable) }

SnakeOf ==
    [ k \in Keywords |-> KeyTable[CHOOSE i \in 1..Len(KeyTable) : KeyTable[i][1] = k][2] ]

TitleOf ==
    [ k \in Keywords |-> KeyTable[CHOOSE i \in 1..Len(KeyTable) : KeyTable[i][1] = k][3] ]

\* _pl.string.camel_to_snake; for "$ref" its result is the environment's snake_ref
CamelToSnake(key) == IF key = "$ref" THEN snake_ref ELSE SnakeOf[key]

\* the default key_title_gen, _pl.string.camel_to_title
KeyTitleGen(key) == IF key = "$ref" THEN "$Ref" ELSE TitleOf[key]

\* _pl.string.to_slug, kept uninterpreted
ToSlug(s) == "slug(" \o s \o ")"

\* the keys _generate_badges iterates, in its order
BadgeKeys ==
    << "deprecated", "readOnly", "writeOnly", "type",
       "format", "contentMediaType", "contentEncoding", "minLength", "maxLength",
       "minimum", "exclusiveMinimum", "maximum", "exclusiveMaximum", "multipleOf",
       "minItems", "maxItems", "minContains", "maxContains", "uniqueItems",
       "unevaluatedItems",
       "minProperties", "maxProperties", "unevaluatedProperties",
       "default", "required", "dependentRequired", "const", "pattern", "enum",
       "contentSchema",
       "prefixItems", "items", "contains",
       "properties", "patternProperties", "additionalProperties", "propertyNames",
       "dependentSchemas",
       "allOf", "oneOf", "anyOf", "not", "if", "$ref" >>

\* the keys _generate_tabs iterates, in its order
TabKeys == << "default", "required", "dependentRequired", "const", "pattern",
              "enum", "examples" >>

\* the suffixes m for which the class defines a method _badge_<m>
BadgeMethodNames ==
    { "deprecated", "read_only", "write_only", "type", "format",
      "content_media_type", "content_encoding", "min_length", "max_length",
      "minimum", "exclusive_minimum", "maximum", "exclusive_maximum",
      "multiple_of", "min_items", "max_items", "min_contains", "max_contains",
      "unique_items", "unevaluated_items", "min_properties", "max_properties",
      "unevaluated_properties", "default", "required", "dependent_required",
      "const", "pattern", "enum", "content_schema", "prefix_items", "ref" }

\* the suffixes m for which the class defines a method tab_<m>
TabMethodNames == { "const" }

-----------------------------------------------------------------------------
(* Construction-time configuration (defaults of __init__) *)

BadgePermissive == "color" :> "#00802B"
BadgeRestrictive == "color" :> "#AF1F10"

\* self._badge_default after __init__: the per-keyword settings
BadgeDefault ==
    ("type" :> ("label" :> "Type")) @@
    ("$id" :> ("label" :> "ID")) @@
    ("$ref" :> ("label" :> "Ref")) @@
    ("$defs" :> ("label" :> "Defs")) @@
    ("allOf" :> ("label" :> "All Of")) @@
    ("anyOf" :> ("label" :> "Any Of")) @@
    ("required" :> ("color" :> "#AF1F10")) @@
    ("deprecated" :> ("color" :> "#AF1F10")) @@
    ("readOnly" :> ("color" :> "#D93402")) @@
    ("writeOnly" :> ("color" :> "#D93402"))

RefTagPrefix == "jsonschema-ref"

GetTitleKey(key) == "" \o key \o "_title"
GetDescriptionKey(key) == "" \o key \o "_description"

\* self._make_tag(*parts), with self = [schema, jsonpath, tag_prefix]
MakeTag(self, parts) ==
    ToSlug(self.tag_prefix \o "-" \o self.jsonpath \o "-" \o Join(parts, "-"))

-----------------------------------------------------------------------------
(* Badge descriptors *)

\* a method that returned None
ReturnNone == [kind |-> "none", exc |-> "", val |-> EmptyDict]

\* a merge in the opposite order: the base fields win, then the style
MakeBadgeKwargsBaseFirst(key, message, label, link, title, config) ==
    ( ("label" :> (IF label # "" THEN label ELSE KeyTitleGen(key))) @@
      ("args" :> ("message" :> message)) @@
      ("alt" :> (IF label # "" THEN label \o ": " \o message ELSE message)) @@
      ("link" :> link) @@
      ("title" :> title) ) @@
    config @@ Get(BadgeDefault, key, EmptyDict)

\* _make_badge_kwargs: base fields | config | per-keyword settings
MakeBadgeKwargs(key, message, label, link, title, config) ==
    Get(BadgeDefault, key, EmptyDict) @@ config @@
    ( ("label" :> (IF label # "" THEN label ELSE KeyTitleGen(key))) @@
      ("args" :> ("message" :> message)) @@
      ("alt" :> (IF label # "" THEN label \o ": " \o message ELSE message)) @@
      ("link" :> link) @@
      ("title" :> title) )

\* the tooltip each _badge_<name> passes as title, applied to the value
TitleText(name, x) ==
    CASE name = "deprecated" ->
           "This value is " \o (IF Truthy(x) THEN "" ELSE "not ") \o "deprecated."
      [] name = "read_only" ->
           "This value is " \o (IF Truthy(x) THEN "" ELSE "not ") \o "read-only."
      [] name = "write_only" ->
           "This value is " \o (IF Truthy(x) THEN "" ELSE "not ") \o "write-only."
      [] name = "type" ->
           IF x.t = "list"
           THEN "This value must have one of the following data types: "
                \o Join(x.v, ", ") \o "."
           ELSE "This value must be of type " \o PyStr(x) \o "."
      [] name = "format" ->
           "This value must be a string with '" \o PyStr(x) \o "' format."
      [] name = "content_media_type" ->
           "This value must be a string with '" \o PyStr(x) \o "' MIME type."
      [] name = "content_encoding" ->
           "This value must be a string with '" \o PyStr(x) \o "' encoding."
      [] name = "min_length" ->
           "This value must be a string with a minimum length of " \o PyStr(x) \o "."
      [] name = "max_length" ->
           "This value must be a string with a maximum length of " \o PyStr(x) \o "."
      [] name = "minimum" ->
           "This value must be greater than or equal to " \o PyStr(x) \o "."
      [] name = "exclusive_minimum" ->
           "This value must be greater than " \o PyStr(x) \o "."
      [] name = "maximum" ->
           "This value must be smaller than or equal to " \o PyStr(x) \o "."
      [] name = "exclusive_maximum" ->
           "This value must be smaller than " \o PyStr(x) \o "."
      [] name = "multiple_of" ->
           "This value must be a multiple of " \o PyStr(x) \o "."
      [] name = "min_items" ->
           "This array must contain " \o PyStr(x) \o " or more elements."
      [] name = "max_items" ->
           "This array must contain " \o PyStr(x) \o " or less elements."
      [] name = "min_contains" ->
           "This array must contain " \o PyStr(x)
           \o " or more elements conforming to the 'contains' schema."
      [] name = "max_contains" ->
           "This array must contain " \o PyStr(x)
           \o " or less elements conforming to the 'contains' schema."
      [] name = "unique_items" ->
           IF Truthy(x) THEN "All array elements must be unique."
           ELSE "Array elements do not need to be unique."
      [] name = "unevaluated_items" ->
           IF x.t = "bool"
           THEN "Array elements other than those defined in 'items', 'prefixItems', or 'contains' are "
                \o (IF x.v THEN "" ELSE "not ") \o "allowed."
           ELSE "Array elements other than those defined in 'items', 'prefixItems', or 'contains' must conform to a separate schema."
      [] name = "min_properties" ->
           "This object must contain " \o PyStr(x) \o " or more properties."
      [] name = "max_properties" ->
           "This object must contain " \o PyStr(x) \o " or less properties."
      [] name = "unevaluated_properties" ->
           IF x.t = "bool"
           THEN "Unevaluated object properties are "
                \o (IF x.v THEN "" ELSE "not ") \o "allowed."
           ELSE "Unevaluated object properties must conform to a separate schema."
      [] name = "default" -> "This value has a default."
      [] name = "const" -> "This value is a constant."
      [] name = "pattern" -> "This string must match a RegEx pattern."
      [] name = "enum" -> "This value must be equal to one of the enumerated values."
      [] name = "content_schema" -> "This media content has a defined schema."
      [] OTHER -> "None"

\* the methods whose title argument is a plain string, not a lambda
StrTitleNames == {"default", "const", "pattern", "enum", "content_schema"}

\* the methods that pass message=lambda value: str(len(value))
LenMessageNames == {"required", "dependent_required", "prefix_items"}

\* _make_keyword_badge_kwargs as _badge_<name> calls it.  key is the keyword
\* the method passes; value is VNone or the value it passes; link is "None",
\* "tag" (a string) or "tag_if_dict" (the lambda of the unevaluated* rules).
MakeKeywordBadgeKwargs(self, name, key, value, true_is_permissive, message_complex, link) ==
    IF key \notin DOMAIN self.schema THEN ReturnNone
    ELSE
    LET val == IF value.t # "none" THEN value ELSE self.schema[key]
        \* lines 673-682: the message and style derived from the value
        auto ==
            CASE val.t = "bool" ->
                   [ok |-> TRUE, str |-> TRUE,
                    message |-> IF val.v THEN "true" ELSE "false",
                    config |-> IF val.v = true_is_permissive
                               THEN BadgePermissive ELSE BadgeRestrictive]
              [] val.t = "list" ->
                   [ok |-> TRUE, str |-> TRUE, message |-> Join(val.v, " | "),
                    config |-> EmptyDict]
              [] val.t = "ilist" ->
                   \* " | ".join of non-strings
                   [ok |-> FALSE, str |-> TRUE, message |-> "", config |-> EmptyDict]
              [] val.t \in {"int", "str"} ->
                   [ok |-> TRUE, str |-> TRUE, message |-> PyStr(val),
                    config |-> EmptyDict]
              [] val.t = "dict" /\ message_complex = "Defined" ->
                   [ok |-> TRUE, str |-> TRUE, message |-> "Defined",
                    config |-> EmptyDict]
              [] val.t = "dict" ->
                   \* len(value) is an int; line 685 then calls it
                   [ok |-> TRUE, str |-> FALSE, message |-> "", config |-> EmptyDict]
              [] OTHER ->
                   IF message_complex = "Defined"
                   THEN [ok |-> TRUE, str |-> TRUE, message |-> "Defined",
                         config |-> EmptyDict]
                   ELSE [ok |-> FALSE, str |-> TRUE, message |-> "",
                         config |-> EmptyDict]
        titled == IF GetTitleKey(key) \in DOMAIN self.schema
                  THEN << PyStr(self.schema[GetTitleKey(key)]) >>
                  ELSE << TitleText(name, val) >>
        linked == CASE link = "tag" -> << "#" \o MakeTag(self, <<key>>) >>
                    [] link = "tag_if_dict" ->
                         IF val.t = "dict" THEN << "#" \o MakeTag(self, <<key>>) >>
                         ELSE << >>
                    [] OTHER -> << >>
    IN  IF name \in LenMessageNames
        THEN \* line 685: message(title) with title a lambda: len() of a function
             Raise("TypeError")
        ELSE IF ~auto.ok \/ ~auto.str THEN Raise("TypeError")
        ELSE Return(MakeBadgeKwargs(key, auto.message, "", linked, titled, auto.config))

\* the keyword _badge_<name> passes as key (_badge_maximum passes MAX_LENGTH)
KeyOfSnake ==
    [ n \in { KeyTable[i][2] : i \in 1..Len(KeyTable) } |->
        KeyTable[CHOOSE i \in 1..Len(KeyTable) : KeyTable[i][2] = n][1] ]

MethodKey(name) == IF name = "maximum" THEN "maxLength" ELSE KeyOfSnake[name]

\* _badge_ref
BadgeRef(self) ==
    LET ref_id == GetOrNone(self.schema, "$ref")
    IN  IF ~Truthy(ref_id) THEN ReturnNone
        ELSE IF ~registry.given \/ DOMAIN registry.resources = {}
        THEN Raise("ValueError")
        ELSE IF PyStr(ref_id) \notin DOMAIN registry.resources
        THEN Raise("KeyError")
        ELSE
        LET ref_schema == registry.resources[PyStr(ref_id)]
            ref_key == PyStr(ref_schema["$id"])
            ref_name == PyStr(Get(ref_schema, "title", ref_schema["$id"]))
        IN  Return(MakeBadgeKwargs(
                "$ref", ref_name, "",
                << "#" \o RefTagPrefix \o "-" \o ToSlug(ref_key) >>,
                << "This schema references another schema with ID '"
                   \o PyStr(ref_id) \o "'." >>,
                EmptyDict))

\* the method _badge_<name>
BadgeMethod(self, name) ==
    CASE name = "ref" -> BadgeRef(self)
      [] name \in {"unevaluated_items", "unevaluated_properties"} ->
           MakeKeywordBadgeKwargs(self, name, MethodKey(name), VNone, TRUE,
                                  "Defined", "tag_if_dict")
      [] name = "default" ->
           MakeKeywordBadgeKwargs(self, name, MethodKey(name), VBool(TRUE), TRUE,
                                  "len", "tag")
      [] name \in {"const", "pattern", "enum", "content_schema"} ->
           MakeKeywordBadgeKwargs(self, name, MethodKey(name), VBool(TRUE), FALSE,
                                  "len", "tag")
      [] name \in {"required", "dependent_required", "prefix_items",
                   "min_contains", "max_contains"} ->
           MakeKeywordBadgeKwargs(self, name, MethodKey(name), VNone, FALSE,
                                  "len", "tag")
      [] OTHER ->
           MakeKeywordBadgeKwargs(self, name, MethodKey(name), VNone, FALSE,
                                  "len", "None")

\* the first badge of every strip (line 202)
JSONPathBadge(instance_jsonpath) ==
    MakeBadgeKwargs("JSONPath", instance_jsonpath, "JSONPath", << >>, << >>, EmptyDict)

\* the loop of _generate_badges (lines 203-262) from keyword i on
RECURSIVE BadgeLoop(_, _, _)
BadgeLoop(self, i, acc) ==
    IF i > Len(BadgeKeys) THEN Return(acc)
    ELSE
    LET method_name == CamelToSnake(BadgeKeys[i])
    IN  IF method_name \notin BadgeMethodNames THEN BadgeLoop(self, i + 1, acc)
        ELSE
        LET badge_item == BadgeMethod(self, method_name)
        IN  CASE badge_item.kind = "raise" -> Raise(badge_item.exc)
              [] badge_item.kind = "return" ->
                   BadgeLoop(self, i + 1, Append(acc, badge_item.val))
              [] OTHER -> BadgeLoop(self, i + 1, acc)

\* a loop over the schema's own keys: a key outside the fixed list gets a badge
BadgeItemsOfSchemaKeys(self, instance_jsonpath) ==
    BadgeLoop(self, 1,
        << JSONPathBadge(instance_jsonpath) >> \o
        (IF DOMAIN self.schema \ (Keywords \cup {"$ref"}) # {}
         THEN << MakeBadgeKwargs("JSONPath", "extra", "Extra", << >>, << >>, EmptyDict) >>
         ELSE << >>))

\* _generate_badges up to its return statement: the list badge_items
BadgeItems(self, instance_jsonpath) ==
    BadgeLoop(self, 1, << JSONPathBadge(instance_jsonpath) >>)

\* _make_badges: self._badges_header_classes and self._badges_inline_classes
\* are read and never assigned
MakeBadges(items, inline) == Raise("AttributeError")

-----------------------------------------------------------------------------
(* Tabs *)

\* the default value_code_gen returns the function to_yaml_string itself;
\* lines 726 and 749 call .strip() on it
ValueCodeBlock(value) == Raise("AttributeError")

\* _make_tab_item
MakeTabItem(self, key, content, title) ==
    ("title" :> (IF title # "" THEN title ELSE KeyTitleGen(key))) @@
    ("name" :> MakeTag(self, <<key>>)) @@
    ("content" :> content)

\* _make_tab_item_simple
MakeTabItemSimple(self, key) ==
    LET value == GetOrNone(self.schema, key)
        intro == GetOrNone(self.schema, GetTitleKey(key))
        description == GetOrNone(self.schema, GetDescriptionKey(key))
        head == (IF Truthy(intro) THEN << <<"title", PyStr(intro)>> >> ELSE << >>)
                \o (IF Truthy(description)
                    THEN << <<"description", PyStr(description)>> >> ELSE << >>)
        block == ValueCodeBlock(value)
    IN  IF ~(Truthy(value) \/ Truthy(intro) \/ Truthy(description)) THEN ReturnNone
        ELSE IF Truthy(value) /\ block.kind = "raise" THEN Raise(block.exc)
        ELSE Return(MakeTabItem(self, key,
                 IF Truthy(value) THEN Append(head, <<"value", block.val>>) ELSE head,
                 ""))

\* the loop of _make_tab_item_array (lines 724-732) from element idx on
RECURSIVE ArrayItems(_, _, _, _)
ArrayItems(values, descriptions, idx, acc) ==
    IF idx > Len(values) THEN Return(acc)
    ELSE
    LET block == ValueCodeBlock(values[idx])
    IN  IF block.kind = "raise" THEN Raise(block.exc)
        ELSE ArrayItems(values, descriptions, idx + 1,
                 Append(acc, IF idx <= Len(descriptions)
                             THEN <<"item", descriptions[idx], block.val>>
                             ELSE <<"item", block.val>>))

\* _make_tab_item_array
MakeTabItemArray(self, key) ==
    LET values == GetOrNone(self.schema, key)
        intro == GetOrNone(self.schema, GetTitleKey(key))
        descriptions == Get(self.schema, GetDescriptionKey(key), VList(<< >>))
        head == IF Truthy(intro) THEN << <<"intro", PyStr(intro)>> >> ELSE << >>
        items == ArrayItems(values.v, descriptions.v, 1, << >>)
    IN  IF ~(Truthy(intro) \/ Truthy(values)) THEN ReturnNone
        ELSE IF Truthy(values) /\ items.kind = "raise" THEN Raise(items.exc)
        ELSE Return(MakeTabItem(self, key,
                 IF Truthy(values) THEN head \o items.val ELSE head, ""))

\* the order sorted() gives the property names of the model
NameOrder == << "a", "b", "c" >>
Rank(n) == CHOOSE i \in 1..Len(NameOrder) : NameOrder[i] = n

\* sorted(names) for a sequence of property names
Sorted(names) ==
    LET ranks == { Rank(names[i]) : i \in 1..Len(names) }
        RECURSIVE Up(_)
        Up(r) == IF r > Len(NameOrder) THEN << >>
                 ELSE LET n == Cardinality({ i \in 1..Len(names) : Rank(names[i]) = r })
                      IN  [ j \in 1..n |-> NameOrder[r] ] \o Up(r + 1)
    IN  Up(1)

\* (the backquote of inline code is written ' in the strings of this module)
\* the entries _tab_required puts in req_list for the required names
\* (lines 565-570)
RequiredEntries(self) ==
    LET required == Get(self.schema, "required", VList(<< >>)).v
        properties == Get(self.schema, "properties", VDict(EmptyDict)).v
        names == Sorted(required)
    IN  [ i \in 1..Len(names) |->
            IF names[i] \in DOMAIN properties
            THEN "['" \o names[i] \o "'](#"
                 \o MakeTag(self, <<"properties", names[i]>>) \o ")"
            ELSE "'" \o names[i] \o "'" ]

\* the entries _tab_required puts in req_list for the groups of
\* dependentRequired (lines 571-588): the groups in the order of their keys,
\* the dependents of a group in the order given; a dependent that is a key
\* of properties is shown as a link whose text is dependency_code
DependentEntries(self) ==
    LET dep_required == Get(self.schema, "dependentRequired", VDict(EmptyDict)).v
        properties == Get(self.schema, "properties", VDict(EmptyDict)).v
        keys == SelectSeq(NameOrder, LAMBDA n : n \in DOMAIN dep_required)
        Code(n) == "'" \o n \o "'"
        DependencyCode(dependency) ==
            IF dependency \in DOMAIN properties
            THEN "[" \o Code(dependency) \o "](#"
                 \o MakeTag(self, <<"properties", dependency>>) \o ")"
            ELSE Code(dependency)
        DepsList(dependency) ==
            LET dependents == dep_required[dependency].v
            IN  [ j \in 1..Len(dependents) |->
                    IF dependents[j] \in DOMAIN properties
                    THEN "[" \o DependencyCode(dependency) \o "](#"
                         \o MakeTag(self, <<"properties", dependents[j]>>) \o ")"
                    ELSE Code(dependents[j]) ]
    IN  [ i \in 1..Len(keys) |->
            << "If " \o DependencyCode(keys[i]) \o " is present:",
               DepsList(keys[i]) >> ]

\* _tab_required: it returns None at line 562 when both keywords are empty;
\* otherwise it builds the list, calls _make_tab_item without keeping what
\* that returns, and returns None at line 594
TabRequired(self) ==
    LET required == Get(self.schema, "required", VList(<< >>))
        dep_required == Get(self.schema, "dependentRequired", VDict(EmptyDict))
        req_list == RequiredEntries(self) \o DependentEntries(self)
        dropped == MakeTabItem(self, "required", req_list, "Required Properties")
    IN  IF ~(Truthy(required) \/ Truthy(dep_required)) THEN ReturnNone
        ELSE ReturnNone

\* the method tab_<name>; only tab_const is defined
TabMethod(self, name) == MakeTabItemSimple(self, "const")

\* _tab_jsonschema: its body reads the names schema, schema_id,
\* schema_jsonpath and add_tab_item, none of which is defined
TabJsonschema(self) == Raise("NameError")

\* the list comprehension of _generate_tabs (lines 266-277) from key i on
RECURSIVE TabLoop(_, _, _)
TabLoop(self, i, acc) ==
    IF i > Len(TabKeys) THEN Return(acc)
    ELSE IF TabKeys[i] \notin DOMAIN self.schema THEN TabLoop(self, i + 1, acc)
    ELSE IF CamelToSnake(TabKeys[i]) \notin TabMethodNames
    THEN Raise("AttributeError")
    ELSE
    LET item == TabMethod(self, CamelToSnake(TabKeys[i]))
    IN  CASE item.kind = "raise" -> Raise(item.exc)
          [] OTHER -> TabLoop(self, i + 1, Append(acc, item.val))

\* _generate_tabs
GenerateTabs(self) ==
    LET tab_items == TabLoop(self, 1, << >>)
        last == TabJsonschema(self)
    IN  IF tab_items.kind = "raise" THEN tab_items
        ELSE IF last.kind = "raise" THEN Raise(last.exc)
        ELSE Return(Append(tab_items.val, last.val))

\* _generate_summary and _generate_description: None, or the block
GenerateSummary(self) ==
    LET summary == GetOrNone(self.schema, "summary")
    IN  IF Truthy(summary) THEN << PyStr(summary) >> ELSE << >>

GenerateDescription(self) ==
    LET description == GetOrNone(self.schema, "description")
    IN  IF Truthy(description) THEN << PyStr(description) >> ELSE << >>

\* generate_schema from line 126 on, once _generate_badges has returned
BodyFrom(self, badges) ==
    LET summary == GenerateSummary(self)
        tabs == GenerateTabs(self)
        description == GenerateDescription(self)
    IN  IF tabs.kind = "raise" THEN Raise(tabs.exc)
        ELSE Return(
            (IF description # << >> THEN "description" :> description ELSE EmptyDict) @@
            ("tabs" :> tabs.val) @@
            (IF summary # << >> THEN "summary" :> summary ELSE EmptyDict) @@
            ("seperator" :> "<hr>") @@
            ("badges" :> badges))

-----------------------------------------------------------------------------
(* The inputs of the model *)

Names == { "a", "b" }

\* the sequences without repetition of at most MaxLen property names
NameSeqs ==
    { q \in UNION { [1..n -> Names] : n \in 0..MaxLen } :
        \A i, j \in 1..Len(q) : i # j => q[i] # q[j] }

DescTexts == << "first", "second", "third", "fourth", "fifth" >>

BoolSchemas ==
    { k :> VBool(b) : k \in {"deprecated", "readOnly", "unevaluatedItems",
                             "unevaluatedProperties"},
                      b \in BOOLEAN }
    \cup { "unevaluatedItems" :> VDict("type" :> VStr("string")),
           ("deprecated" :> VBool(TRUE)) @@ ("deprecated_title" :> VStr("Old.")) }

ScalarSchemas ==
    { k :> VInt(n) : k \in {"maxLength", "minimum", "maximum"},
                     n \in 0..MaxInt }
    \cup { "format" :> VStr("date"), "type" :> VStr("string"),
           "type" :> VList(<<"string", "null">>),
           ("maxLength" :> VInt(1)) @@ ("minimum" :> VInt(0)),
           ("maxLength" :> VInt(1)) @@ ("maximum" :> VInt(0)) }

RequiredSchemas ==
    { ("required" :> VList(q)) @@ props :
        q \in NameSeqs,
        props \in { EmptyDict, "properties" :> VDict("a" :> VDict(EmptyDict)) } }
    \cup { "dependentRequired" :> VDict(EmptyDict),
           "dependentRequired" :> VDict(("a" :> VList(<<"c", "b">>))),
           ("required" :> VList(<<"b">>)) @@
           ("dependentRequired" :> VDict(("a" :> VList(<<"b">>)))),
           ("dependentRequired" :> VDict(("b" :> VList(<<"c", "a">>)))) @@
           ("properties" :> VDict("a" :> VDict(EmptyDict))),
           "prefixItems" :> VList(<<"x">>) }

\* enum / examples: n values, and m descriptions (m = -1: no companion key)
ArraySchema(k, n, m) ==
    (k :> VIList([i \in 1..n |-> i])) @@
    (IF m >= 0 THEN GetDescriptionKey(k) :> VList(SubSeq(DescTexts, 1, m))
     ELSE EmptyDict)

ArraySchemas ==
    { ArraySchema("enum", n, m) : n \in 1..MaxLen, m \in (-1)..(MaxLen + 1) }
    \cup { ArraySchema("examples", n, m) : n \in 1..MaxLen, m \in {-1, 1} }
    \cup { ArraySchema(k, 0, -1) : k \in {"enum", "examples"} }

SimpleValues == { VInt(0), VInt(1), VStr(""), VBool(FALSE), VNone }

\* default / const / pattern: the value, the title companion, or both
SimpleSchemas ==
    { k :> x : k \in {"default", "const"}, x \in SimpleValues }
    \cup { "pattern" :> VStr(""), "pattern" :> VStr("^a") }
    \cup { GetTitleKey(k) :> VStr("T") : k \in {"default", "const", "pattern"} }
    \cup { (k :> x) @@ (GetTitleKey(k) :> VStr("T")) :
             k \in {"default", "const"}, x \in { VInt(0), VInt(1) } }

OtherSchemas ==
    { EmptyDict,
      "$ref" :> VStr("urn:x"), "$ref" :> VStr(""), "$ref" :> VStr("urn:none"),
      "summary" :> VStr("s"), "description" :> VStr("d"),
      "x-custom" :> VInt(1), "title" :> VStr("t"),
      "properties" :> VDict("a" :> VDict(EmptyDict)),
      "items" :> VDict(EmptyDict),
      "contentSchema" :> VDict(EmptyDict) }

PrimarySchemas ==
    BoolSchemas \cup ScalarSchemas \cup RequiredSchemas \cup ArraySchemas
    \cup SimpleSchemas \cup OtherSchemas

\* what a primary schema is extended with
SecondarySchemas ==
    { EmptyDict,
      "$ref" :> VStr("urn:x"),
      "x-custom" :> VInt(1) }

SchemaPool == { p @@ s : p \in PrimarySchemas, s \in SecondarySchemas }

\* (schema_jsonpath, schema_tag_prefix, instance_jsonpath) of a call
PathPool ==
    { [jsonpath |-> "$", tag_prefix |-> "main", instance |-> "$"],
      [jsonpath |-> "$.defs.x", tag_prefix |-> "aux", instance |-> "$.x"] }

\* the schemas of the interleaved calls
ConcPool ==
    { "deprecated" :> VBool(TRUE),
      "default" :> VInt(1),
      ("maxLength" :> VInt(1)) @@ ("minimum" :> VInt(0)),
      "required" :> VList(<<"a">>) }

RegistryPool ==
    { [given |-> FALSE, resources |-> EmptyDict],
      [given |-> TRUE,
       resources |-> "urn:x" :> (("$id" :> VStr("urn:x")) @@ ("title" :> VStr("X")))] }

\* the arguments of the direct calls of _make_badge_kwargs
KwargsKeys == { "deprecated", "readOnly", "writeOnly", "required", "type",
                "$ref", "maxLength", "JSONPath" }
KwargsMessages == { "true", "7" }
KwargsLabels == { "", "L" }
KwargsLinks == { << >>, << "#t" >> }
KwargsTitles == { << >>, << "T" >> }
KwargsConfigs ==
    { EmptyDict, BadgePermissive, BadgeRestrictive,
      ("color" :> "#00802B") @@ ("label" :> "Styled"),
      "title" :> << "styled" >> }

-----------------------------------------------------------------------------
(* The generator instance and its calls *)

Calls == { 1, 2 }

NoArgs == [schema |-> EmptyDict, schema_jsonpath |-> "", schema_tag_prefix |-> "",
           instance_jsonpath |-> ""]

\* no direct call of _make_badge_kwargs yet
NoKwargs == [done |-> FALSE, key |-> "", message |-> "", label |-> "",
             link |-> << >>, title |-> << >>, config |-> EmptyDict,
             out |-> EmptyDict]

\* the instance as the helpers read it
Self == [schema |-> self_schema, jsonpath |-> self_schema_jsonpath,
         tag_prefix |-> self_schema_tag_prefix]

\* __init__ (lines 49-97)
Init ==
    /\ registry \in RegistryPool
    /\ snake_ref \in { "ref", "$ref" }
    /\ self_schema = EmptyDict
    /\ self_schema_jsonpath = ""
    /\ self_schema_tag_prefix = ""
    /\ self_instance_jsonpath = ""
    /\ pc = [c \in Calls |-> "idle"]
    /\ args = [c \in Calls |-> NoArgs]
    /\ badge_items = [c \in Calls |-> << >>]
    /\ result = [c \in Calls |-> Pending]
    /\ earlier = [c \in Calls |-> FALSE]
    /\ tabs_result = Pending
    /\ kwargs = NoKwargs

\* a generator that binds the schema only while none is bound
BindSchemaOnce(old, schema) == IF old = EmptyDict THEN schema ELSE old

\* line 119: self._schema = schema
BindSchema(old, schema) == schema

\* generate_schema is entered with its four arguments and runs line 119
GenerateSchemaCall(c, schema, p) ==
    /\ pc[c] \in { "idle", "done" }
    /\ args' = [args EXCEPT ![c] =
                  [schema |-> schema, schema_jsonpath |-> p.jsonpath,
                   schema_tag_prefix |-> p.tag_prefix,
                   instance_jsonpath |-> p.instance]]
    /\ self_schema' = BindSchema(self_schema, schema)
    /\ pc' = [pc EXCEPT ![c] = "l120"]
    /\ badge_items' = [badge_items EXCEPT ![c] = << >>]
    /\ result' = [result EXCEPT ![c] = Pending]
    /\ earlier' = [earlier EXCEPT ![c] = \E d \in Calls : pc[d] = "done"]
    /\ tabs_result' = Pending
    /\ UNCHANGED <<kwargs, registry, snake_ref, self_schema_jsonpath,
                   self_schema_tag_prefix, self_instance_jsonpath>>

\* line 120
BindJsonpath(c) ==
    /\ pc[c] = "l120"
    /\ self_schema_jsonpath' = args[c].schema_jsonpath
    /\ pc' = [pc EXCEPT ![c] = "l121"]
    /\ UNCHANGED <<kwargs, registry, snake_ref, self_schema, self_schema_tag_prefix,
                   self_instance_jsonpath, args, badge_items, result, earlier,
                   tabs_result>>

\* line 121
BindTagPrefix(c) ==
    /\ pc[c] = "l121"
    /\ self_schema_tag_prefix' = args[c].schema_tag_prefix
    /\ pc' = [pc EXCEPT ![c] = "l122"]
    /\ UNCHANGED <<kwargs, registry, snake_ref, self_schema, self_schema_jsonpath,
                   self_instance_jsonpath, args, badge_items, result, earlier,
                   tabs_result>>

\* line 122
BindInstancePath(c) ==
    /\ pc[c] = "l122"
    /\ self_instance_jsonpath' = args[c].instance_jsonpath
    /\ pc' = [pc EXCEPT ![c] = "l125"]
    /\ UNCHANGED <<kwargs, registry, snake_ref, self_schema, self_schema_jsonpath,
                   self_schema_tag_prefix, args, badge_items, result, earlier,
                   tabs_result>>

\* line 125, _generate_badges up to its return statement (lines 202-262)
GenerateBadgesStep(c) ==
    /\ pc[c] = "l125"
    /\ LET items == BadgeItems(Self, args[c].instance_jsonpath)
       IN  IF items.kind = "raise"
           THEN /\ result' = [result EXCEPT ![c] = Raise(items.exc)]
                /\ pc' = [pc EXCEPT ![c] = "done"]
                /\ UNCHANGED badge_items
           ELSE /\ badge_items' = [badge_items EXCEPT ![c] = items.val]
                /\ pc' = [pc EXCEPT ![c] = "l263"]
                /\ UNCHANGED result
    /\ UNCHANGED <<kwargs, registry, snake_ref, self_schema, self_schema_jsonpath,
                   self_schema_tag_prefix, self_instance_jsonpath, args, earlier,
                   tabs_result>>

\* line 263, _make_badges, and lines 126-135 if it returns
MakeBadgesStep(c) ==
    /\ pc[c] = "l263"
    /\ LET badges == MakeBadges(badge_items[c], FALSE)
       IN  result' = [result EXCEPT ![c] =
                        IF badges.kind = "raise" THEN Raise(badges.exc)
                        ELSE BodyFrom(Self, badges.val)]
    /\ pc' = [pc EXCEPT ![c] = "done"]
    /\ UNCHANGED <<kwargs, registry, snake_ref, self_schema, self_schema_jsonpath,
                   self_schema_tag_prefix, self_instance_jsonpath, args,
                   badge_items, earlier, tabs_result>>

\* _generate_tabs called on the instance as the last generate_schema left it
GenerateTabsCall ==
    /\ \A c \in Calls : pc[c] \in { "idle", "done" }
    /\ \E c \in Calls : pc[c] = "done"
    /\ tabs_result = Pending
    /\ tabs_result' = GenerateTabs(Self)
    /\ UNCHANGED <<kwargs, registry, snake_ref, self_schema, self_schema_jsonpath,
                   self_schema_tag_prefix, self_instance_jsonpath, pc, args,
                   badge_items, result, earlier>>

\* _make_badge_kwargs called with the given arguments
MakeBadgeKwargsCall(key, message, label, link, title, config) ==
    /\ kwargs' = [done |-> TRUE, key |-> key, message |-> message,
                  label |-> label, link |-> link, title |-> title,
                  config |-> config,
                  out |-> MakeBadgeKwargs(key, message, label, link, title, config)]
    /\ UNCHANGED <<registry, snake_ref, self_schema, self_schema_jsonpath,
                   self_schema_tag_prefix, self_instance_jsonpath, pc, args,
                   badge_items, result, earlier, tabs_result>>

\* one caller: the calls on the instance follow one another
Next ==
    \/ \E s \in SchemaPool, p \in PathPool : GenerateSchemaCall(1, s, p)
    \/ BindJsonpath(1)
    \/ BindTagPrefix(1)
    \/ BindInstancePath(1)
    \/ GenerateBadgesStep(1)
    \/ MakeBadgesStep(1)
    \/ GenerateTabsCall

Spec == Init /\ [][Next]_vars

\* two callers (threads) on the one instance, interleaved between their steps
NextConc ==
    \E c \in Calls :
        \/ \E s \in ConcPool, p \in PathPool : GenerateSchemaCall(c, s, p)
        \/ BindJsonpath(c)
        \/ BindTagPrefix(c)
        \/ BindInstancePath(c)
        \/ GenerateBadgesStep(c)
        \/ MakeBadgesStep(c)

\* the interleaved calls carry no $ref: one configuration
InitConc == Init /\ ~registry.given /\ snake_ref = "ref"

SpecConc == InitConc /\ [][NextConc]_vars

\* _make_badge_kwargs on its own, over keys and style settings
NextKwargs ==
    \E key \in KwargsKeys, message \in KwargsMessages, label \in KwargsLabels,
       link \in KwargsLinks, title \in KwargsTitles, config \in KwargsConfigs :
        MakeBadgeKwargsCall(key, message, label, link, title, config)

SpecKwargs == Init /\ [][NextKwargs]_vars

-----------------------------------------------------------------------------
(* What the claims speak of *)

\* the instance a call would read if its own arguments were bound
OwnSelf(c) == [schema |-> args[c].schema, jsonpath |-> args[c].schema_jsonpath,
               tag_prefix |-> args[c].schema_tag_prefix]

\* generate_schema (lines 119-135) run without interruption on arguments a
GenerateSchema(a) ==
    LET self == [schema |-> a.schema, jsonpath |-> a.schema_jsonpath,
                 tag_prefix |-> a.schema_tag_prefix]
        items == BadgeItems(self, a.instance_jsonpath)
        badges == MakeBadges(items.val, FALSE)
    IN  IF items.kind = "raise" THEN Raise(items.exc)
        ELSE IF badges.kind = "raise" THEN Raise(badges.exc)
        ELSE BodyFrom(self, badges.val)

\* d without key k
Without(d, k) == [ x \in DOMAIN d \ {k} |-> d[x] ]

\* the keywords generate_schema knows: badge keywords, tab keywords, summary,
\* description
RecognizedKeys ==
    { BadgeKeys[i] : i \in 1..Len(BadgeKeys) } \cup { TabKeys[i] : i \in 1..Len(TabKeys) }
    \cup { "summary", "description" }

\* the companion title and description keys of the recognized keywords
CompanionKeys ==
    { GetTitleKey(k) : k \in RecognizedKeys } \cup { GetDescriptionKey(k) : k \in RecognizedKeys }

\* the label the badge of keyword k carries
LabelFor(k) ==
    IF k \in DOMAIN BadgeDefault /\ "label" \in DOMAIN BadgeDefault[k]
    THEN BadgeDefault[k]["label"] ELSE KeyTitleGen(k)

\* the place in the fixed keyword list of the keyword a badge is labelled for
\* (0: none)
BadgePos(badge) ==
    IF \E i \in 1..Len(BadgeKeys) : LabelFor(BadgeKeys[i]) = badge["label"]
    THEN CHOOSE i \in 1..Len(BadgeKeys) : LabelFor(BadgeKeys[i]) = badge["label"]
    ELSE 0

\* the badges of a list that are labelled for keyword k
BadgesFor(items, k) == { i \in 1..Len(items) : items[i]["label"] = LabelFor(k) }

\* badge b carries every setting of style st
Carries(b, st) == \A k \in DOMAIN st : k \in DOMAIN b /\ b[k] = st[k]

\* C1: a schema with no recognized keyword gives a body with exactly the
\* JSONPath badge, exactly one tab (the raw schema), no summary and no
\* description.
C1_BareSchemaBody ==
    \A c \in Calls :
        (pc[c] = "done" /\ DOMAIN args[c].schema \cap RecognizedKeys = {}) =>
            /\ result[c].kind = "return"
            /\ result[c].val["badges"] = << JSONPathBadge(args[c].instance_jsonpath) >>
            /\ Len(result[c].val["tabs"]) = 1
            /\ "summary" \notin DOMAIN result[c].val
            /\ "description" \notin DOMAIN result[c].val

\* C2: the badge list _generate_badges builds starts with the JSONPath badge,
\* holds at most one badge per keyword, and keeps the order of the fixed
\* keyword list.
C2_BadgeOrder ==
    \A c \in Calls :
        pc[c] = "l263" =>
            /\ badge_items[c][1] = JSONPathBadge(args[c].instance_jsonpath)
            /\ \A i \in 2..Len(badge_items[c]) : BadgePos(badge_items[c][i]) > 0
            /\ \A i, j \in 2..Len(badge_items[c]) :
                 i < j => BadgePos(badge_items[c][i]) < BadgePos(badge_items[c][j])

\* the badge of boolean keyword k carries style st in the list of call c
BoolBadgeCarries(c, k, b, st) ==
    (k \in DOMAIN args[c].schema /\ args[c].schema[k] = VBool(b)) =>
        /\ BadgesFor(badge_items[c], k) # {}
        /\ \A i \in BadgesFor(badge_items[c], k) : Carries(badge_items[c][i], st)

\* C3: deprecated true carries the restrictive style and deprecated false the
\* permissive style; for unevaluatedItems and unevaluatedProperties true
\* carries the permissive and false the restrictive style.
C3_BooleanPolarity ==
    \A c \in Calls :
        pc[c] = "l263" =>
            /\ BoolBadgeCarries(c, "deprecated", TRUE, BadgeRestrictive)
            /\ BoolBadgeCarries(c, "deprecated", FALSE, BadgePermissive)
            /\ \A k \in {"unevaluatedItems", "unevaluatedProperties"} :
                 /\ BoolBadgeCarries(c, k, TRUE, BadgePermissive)
                 /\ BoolBadgeCarries(c, k, FALSE, BadgeRestrictive)

\* the tabs of a tab set that are named for keyword k in the scope of call c
TabsFor(tabs, c, k) ==
    { i \in 1..Len(tabs) :
        tabs[i] # EmptyDict /\ tabs[i]["name"] = MakeTag(OwnSelf(c), <<k>>) }

\* C4: with a non-empty required list, generation gives a tab set with a
\* required tab listing every required name once, in lexicographic order, as
\* a link exactly when the name is a key of properties.
C4_RequiredTab ==
    \A c \in Calls :
        (/\ pc[c] = "done"
         /\ "required" \in DOMAIN args[c].schema
         /\ Truthy(args[c].schema["required"])) =>
            /\ result[c].kind = "return"
            /\ \E i \in TabsFor(result[c].val["tabs"], c, "required") :
                 result[c].val["tabs"][i]["content"] = RequiredEntries(OwnSelf(c))

\* C5: for enum and examples with values V and descriptions D, generation
\* gives a tab with Len(V) items in the order of V, item i holding D[i] and
\* the code block when i <= Len(D) and the bare code block otherwise.
C5_ArrayTab ==
    \A c \in Calls : \A k \in {"enum", "examples"} :
        (/\ pc[c] = "done"
         /\ k \in DOMAIN args[c].schema
         /\ Truthy(args[c].schema[k])) =>
            /\ result[c].kind = "return"
            /\ \E i \in TabsFor(result[c].val["tabs"], c, k) :
                 LET V == args[c].schema[k].v
                     D == Get(args[c].schema, GetDescriptionKey(k), VList(<< >>)).v
                     shown == result[c].val["tabs"][i]["content"]
                 IN  /\ Len(shown) = Len(V)
                     /\ \A n \in 1..Len(V) :
                          IF n <= Len(D)
                          THEN Len(shown[n]) = 3 /\ shown[n][2] = D[n]
                          ELSE Len(shown[n]) = 2

\* C6: with a non-empty $ref and no registry, generate_schema ends in the
\* ValueError of the $ref rule, whatever else the schema carries (stated for
\* the environments in which the $ref rule is looked up under its name).
C6_RefWithoutRegistry ==
    \A c \in Calls :
        (/\ pc[c] = "done"
         /\ snake_ref = "ref"
         /\ ~registry.given
         /\ Truthy(GetOrNone(args[c].schema, "$ref"))) =>
            result[c] = Raise("ValueError")

\* C7: however two calls on the instance interleave, the badge list of each
\* call and its outcome are those of its own schema and paths.
C7_CallScoped ==
    \A c \in Calls :
        /\ pc[c] = "l263" =>
             badge_items[c] = BadgeItems(OwnSelf(c), args[c].instance_jsonpath).val
        /\ pc[c] = "done" => result[c] = GenerateSchema(args[c])

\* C8: whatever calls were completed before on the instance, a call reads
\* the schema it was given from its first line on, and its outcome is the one
\* its four arguments and the configuration give on their own.
C8_HistoryIndependent ==
    \A c \in Calls :
        /\ pc[c] # "idle" => self_schema = args[c].schema
        /\ pc[c] = "l263" =>
             badge_items[c] = BadgeItems(OwnSelf(c), args[c].instance_jsonpath).val
        /\ pc[c] = "done" => result[c] = GenerateSchema(args[c])
        /\ (pc[c] = "done" /\ tabs_result # Pending) =>
             tabs_result = GenerateTabs(OwnSelf(c))

\* a call that followed a completed call with other arguments has ended, here
\* in the TypeError of a count-valued keyword
C8_Witness ==
    pc[1] = "done" /\ earlier[1] /\ result[1] = Raise("TypeError")

\* the place of tab k in the fixed order of tabs (required and
\* dependentRequired share one)
TabRank(self, tab) ==
    CASE tab["name"] = MakeTag(self, <<"default">>) -> 1
      [] tab["name"] = MakeTag(self, <<"required">>) -> 2
      [] tab["name"] = MakeTag(self, <<"const">>) -> 3
      [] tab["name"] = MakeTag(self, <<"pattern">>) -> 4
      [] tab["name"] = MakeTag(self, <<"enum">>) -> 5
      [] tab["name"] = MakeTag(self, <<"examples">>) -> 6
      [] tab["name"] = MakeTag(self, <<"schema">>) -> 7
      [] OTHER -> 0

\* C9: _generate_tabs gives a tab set of actual tab items only, in the fixed
\* order, one combined tab for required and dependentRequired, and the
\* raw-schema tab last.
C9_TabSet ==
    tabs_result # Pending =>
        /\ tabs_result.kind = "return"
        /\ LET tabs == tabs_result.val
           IN  /\ Len(tabs) >= 1
               /\ \A i \in 1..Len(tabs) : tabs[i] # EmptyDict /\ TabRank(Self, tabs[i]) > 0
               /\ \A i, j \in 1..Len(tabs) :
                    i < j => TabRank(Self, tabs[i]) < TabRank(Self, tabs[j])
               /\ TabRank(Self, tabs[Len(tabs)]) = 7

\* the keys of a schema that generate_schema does not know
UnknownKeys(schema) == DOMAIN schema \ (RecognizedKeys \cup CompanionKeys)

CountKeys == { "required", "dependentRequired", "prefixItems" }

\* the number of dependent names over all the groups of a dependentRequired
RECURSIVE SumLens(_, _)
SumLens(d, keys) ==
    IF keys = {} THEN 0
    ELSE LET k == CHOOSE x \in keys : TRUE
         IN  Len(d[k].v) + SumLens(d, keys \ {k})

\* the count the badge of count keyword k reports for value v
CountOf(k, v) ==
    IF k = "dependentRequired" THEN SumLens(v.v, DOMAIN v.v) ELSE Len(v.v)

\* the tooltip of count keyword k for value v
CountTitle(k, v) ==
    CASE k = "required" ->
           "This object has " \o ToString(CountOf(k, v)) \o " required properties."
      [] k = "dependentRequired" ->
           "This object has " \o ToString(CountOf(k, v))
           \o " required properties depending on "
           \o ToString(Cardinality(DOMAIN v.v)) \o " other properties."
      [] OTHER ->
           "The first " \o ToString(CountOf(k, v))
           \o " elements of this array are individually defined."

\* C11: for required, dependentRequired and prefixItems the badge rule gives
\* a badge (the call gets past the badge loop), its message is the count of
\* entries (for dependentRequired the dependent names over all groups), and
\* its tooltip interpolates that count.  Stated for schemas without $ref and
\* without a companion title, whose rules could end the loop or replace the
\* tooltip.
C11_CountBadge ==
    \A c \in Calls : \A k \in CountKeys :
        (/\ pc[c] \in { "l263", "done" }
         /\ k \in DOMAIN args[c].schema
         /\ "$ref" \notin DOMAIN args[c].schema
         /\ GetTitleKey(k) \notin DOMAIN args[c].schema) =>
            \E i \in BadgesFor(badge_items[c], k) :
                /\ badge_items[c][i]["args"]["message"]
                     = ToString(CountOf(k, args[c].schema[k]))
                /\ badge_items[c][i]["title"]
                     = << CountTitle(k, args[c].schema[k]) >>

\* the keywords whose badge message is the string form of their value
ScalarKeys ==
    { "format", "contentMediaType", "contentEncoding", "minLength", "maxLength",
      "minimum", "exclusiveMinimum", "maximum", "exclusiveMaximum", "multipleOf",
      "minItems", "maxItems", "minContains", "maxContains", "minProperties",
      "maxProperties" }

\* C12: for every scalar keyword k present with value v, the badge list holds
\* exactly one badge labelled for k, its message is str(v), the value stored
\* under k itself (0 included), and its tooltip is the sentence of k with v
\* interpolated; maximum is reported from the value of maximum with or
\* without maxLength.  Stated for schemas without a companion title of k.
C12_ScalarBadge ==
    \A c \in Calls : \A k \in ScalarKeys :
        (/\ pc[c] = "l263"
         /\ k \in DOMAIN args[c].schema
         /\ GetTitleKey(k) \notin DOMAIN args[c].schema) =>
            /\ Cardinality(BadgesFor(badge_items[c], k)) = 1
            /\ \A i \in BadgesFor(badge_items[c], k) :
                 /\ badge_items[c][i]["args"]["message"] = PyStr(args[c].schema[k])
                 /\ badge_items[c][i]["title"]
                      = << TitleText(SnakeOf[k], args[c].schema[k]) >>

\* the keywords shown in a simple-value tab
SimpleKeys == { "default", "const", "pattern" }

\* the tabs of a tab set named for keyword k on the instance as it stands
NamedTabs(tabs, k) ==
    { i \in 1..Len(tabs) :
        tabs[i] # EmptyDict /\ tabs[i]["name"] = MakeTag(Self, <<k>>) }

\* C13: for default, const and pattern, _generate_tabs gives a tab set that
\* holds the tab of k exactly when k, its title key or its description key
\* is a key of the schema, whatever the value (false, 0, "" and null
\* included); when k itself is a key, the tab holds the value's code block.
C13_SimpleTab ==
    \A k \in SimpleKeys :
        tabs_result # Pending =>
            LET present == { k, GetTitleKey(k), GetDescriptionKey(k) }
                             \cap DOMAIN self_schema # {}
            IN  /\ present =>
                     /\ tabs_result.kind = "return"
                     /\ NamedTabs(tabs_result.val, k) # {}
                /\ (tabs_result.kind = "return" /\ ~present) =>
                     NamedTabs(tabs_result.val, k) = {}
                /\ (tabs_result.kind = "return" /\ k \in DOMAIN self_schema) =>
                     \A i \in NamedTabs(tabs_result.val, k) :
                         \E j \in 1..Len(tabs_result.val[i]["content"]) :
                             tabs_result.val[i]["content"][j][1] = "value"

\* the groups of dependentRequired as the required tab is to show them: one
\* block per dependency key in the order of the keys, the dependents of a
\* block sorted, each under its own name, a link when a key of properties
DependentGroups(self) ==
    LET dep_required == Get(self.schema, "dependentRequired", VDict(EmptyDict)).v
        properties == Get(self.schema, "properties", VDict(EmptyDict)).v
        keys == SelectSeq(NameOrder, LAMBDA n : n \in DOMAIN dep_required)
        Shown(n) ==
            IF n \in DOMAIN properties
            THEN "['" \o n \o "'](#" \o MakeTag(self, <<"properties", n>>) \o ")"
            ELSE "'" \o n \o "'"
    IN  [ i \in 1..Len(keys) |->
            << "If " \o Shown(keys[i]) \o " is present:",
               LET dependents == Sorted(dep_required[keys[i]].v)
               IN  [ j \in 1..Len(dependents) |-> Shown(dependents[j]) ] >> ]

\* C14: with a non-empty dependentRequired, _generate_tabs gives a tab set
\* whose required tab lists the required names and after them one block per
\* dependency key, keys in lexicographic order, each block listing its
\* dependents in lexicographic order, each dependent under its own name and
\* as a link exactly when it is a key of properties.
C14_DependentGroups ==
    (/\ tabs_result # Pending
     /\ Truthy(Get(self_schema, "dependentRequired", VDict(EmptyDict)))) =>
        /\ tabs_result.kind = "return"
        /\ \E i \in NamedTabs(tabs_result.val, "required") :
             tabs_result.val[i]["content"]
               = RequiredEntries(Self) \o DependentGroups(Self)

\* the keywords whose badge links to a tab anchor
LinkKeys == { "default", "const", "pattern", "enum", "contentSchema",
              "required", "dependentRequired", "prefixItems" }

BaseFields(key, message, label, link, title) ==
    [ label |-> IF label # "" THEN label ELSE KeyTitleGen(key),
      args |-> ("message" :> message),
      alt |-> IF label # "" THEN label \o ": " \o message ELSE message,
      link |-> link,
      title |-> title ]

\* C16: in a descriptor _make_badge_kwargs builds, every setting of the
\* per-keyword table for the key is in the descriptor; every setting of the
\* style passed as config that the table does not give is in it; the base
\* fields (label, args, alt, link, title) are in it where neither gives
\* them; so the per-keyword color shows under either style.
C16_Precedence ==
    kwargs.done =>
        LET per == Get(BadgeDefault, kwargs.key, EmptyDict)
            st == kwargs.config
            base == BaseFields(kwargs.key, kwargs.message, kwargs.label,
                               kwargs.link, kwargs.title)
            out == kwargs.out
        IN  /\ DOMAIN out = DOMAIN per \cup DOMAIN st \cup DOMAIN base
            /\ \A s \in DOMAIN per : out[s] = per[s]
            /\ \A s \in DOMAIN st \ DOMAIN per : out[s] = st[s]
            /\ \A s \in DOMAIN base \ (DOMAIN st \cup DOMAIN per) : out[s] = base[s]

\* the descriptor of deprecated built under the permissive style shows the
\* per-keyword color
C16_Witness ==
    /\ kwargs.done
    /\ kwargs.key = "deprecated"
    /\ kwargs.config = BadgePermissive
    /\ kwargs.out["color"] = "#AF1F10"
====
